---- MODULE Spec2Model ----
(***************************************************************************)
(* Helpdesk ticket triage service (backend/main.py).                       *)
(*                                                                         *)
(* State: the specialist roster (employers), the precomputed embedding     *)
(* index (employer_skill_embeddings), the in-memory ticket store           *)
(* (tickets_db) and the two pretrained models (skill_model,                *)
(* priority_classifier).  The handlers are `async def` without any await,  *)
(* so each request runs to completion on the event loop: one action per    *)
(* handler.                                                                *)
(*                                                                         *)
(* Encodings.                                                              *)
(*  - Optional values: None is <<>>, a present value x is <<x>>.           *)
(*  - A classifier score is an integer number of 1/10000 (0 .. 10000 is    *)
(*    0.0 .. 1.0); priority_score = score * 100 keeps that unit, so        *)
(*    100.0 is 1000000.                                                    *)
(*  - A cosine similarity is an integer number of 1/1000 (-1000 .. 1000).  *)
(*  - A formatted number ({:.1f}, {:.2f}) is the integer number of tenths  *)
(*    or hundredths that is printed.                                       *)
(*  - ", ".join(xs) is kept as the sequence xs; an f-string is a record of *)
(*    its interpolated parts.                                              *)
(*  - created_at / updated_at (wall-clock strings) are left out.           *)
(*  - A handler's locals that hold a call's return value (priority and     *)
(*    score, best employer) are bound with \E over a one-element set, so   *)
(*    the call is evaluated once per request.                              *)
(***************************************************************************)
EXTENDS Integers, Sequences, FiniteSets

\* employers, employer_skill_embeddings, tickets_db, skill_model and
\* priority_classifier are the module globals.  response is what the last
\* request returned, returned the TriageResults returned so far with the text
\* they were returned for, pc the phase of the process.
VARIABLES employers, employer_skill_embeddings, tickets_db, skill_model,
          priority_classifier, response, returned, pc

vars == <<employers, employer_skill_embeddings, tickets_db, skill_model,
          priority_classifier, response, returned, pc>>

\* Largest roster prefix loaded at startup.
MaxRoster == 2
\* Largest number of tickets created in a run.
MaxTickets == 2

None == <<>>
Some(x) == <<x>>

\* The roster literal.
Roster ==
  << [id |-> "emp1", name |-> "Alice", skills |-> <<"Python", "Machine Learning", "Flask">>],
     [id |-> "emp2", name |-> "Bob", skills |-> <<"Java", "Spring Boot", "Microservices">>],
     [id |-> "emp3", name |-> "Charlie", skills |-> <<"JavaScript", "React", "Node.js">>],
     [id |-> "emp4", name |-> "Diana", skills |-> <<"SQL", "PostgreSQL", "Data Modeling">>],
     [id |-> "emp5", name |-> "Ethan", skills |-> <<"AWS", "Docker", "Kubernetes">>],
     [id |-> "emp6", name |-> "Fiona", skills |-> <<"TensorFlow", "Deep Learning", "NLP">>],
     [id |-> "emp7", name |-> "George", skills |-> <<"C++", "Linux", "Embedded Systems">>],
     [id |-> "emp8", name |-> "Hannah", skills |-> <<"Cybersecurity", "Networking", "Firewalls">>],
     [id |-> "emp9", name |-> "Ian", skills |-> <<"Data Engineering", "Airflow", "ETL">>],
     [id |-> "emp10", name |-> "Jane", skills |-> <<"UI/UX", "Figma", "Frontend Design">>] >>

\* Rosters the service is started with: a prefix of the roster literal.
Rosters == { SubSeq(Roster, 1, n) : n \in 0..MaxRoster }

\* Request inputs (TicketCreate).
UserIds == {"u1"}
Titles == {"Checkout page"}
Descriptions == {"Production API returns 500 for every order", "Typo in the footer"}

\* f"{title}: {description}"
TicketText(title, description) == <<title, ": ", description>>

Texts == { TicketText(t, d) : t \in Titles, d \in Descriptions }

candidate_labels == <<"urgent critical", "high priority", "medium priority", "low priority">>

\* Raw classifier scores, in 1/10000.
ScoreLevels == {0, 2500, 3334, 6666, 10000}

\* Cosine similarities, in 1/1000.
SimLevels == {-1000, 337}

Permutations4 ==
  { p \in [1..4 -> 1..4] : \A i, j \in 1..4 : i # j => p[i] # p[j] }

\* What the zero-shot pipeline may return for the four candidate labels: each
\* candidate once, in some order, with a score per position.
ClassifierResults ==
  { [labels |-> [i \in 1..4 |-> candidate_labels[p[i]]], scores |-> s] :
      p \in Permutations4, s \in [1..4 -> ScoreLevels] }

\* The classifier outputs used when the whole service runs: one per winning
\* label, returned best first, two of them with a tie for the best score.
ServingClassifierResults ==
  { [labels |-> <<"urgent critical", "high priority", "medium priority", "low priority">>,
     scores |-> <<10000, 0, 0, 0>>],
    [labels |-> <<"high priority", "urgent critical", "low priority", "medium priority">>,
     scores |-> <<6666, 3334, 0, 0>>],
    [labels |-> <<"medium priority", "low priority", "high priority", "urgent critical">>,
     scores |-> <<3334, 3334, 3334, 0>>],
    [labels |-> <<"low priority", "medium priority", "high priority", "urgent critical">>,
     scores |-> <<2500, 2500, 2500, 2500>>] }

\* The embedding of a text: an opaque vector, identified by the text encoded.
Encode(text) == [vector_of |-> text]

\* ", ".join(employer_skills)
SkillText(skills) == skills

\* The index built at import time: one entry per employer id, in insertion
\* order (ids of the roster are distinct).
BuildIndex(emps) ==
  [ i \in 1..Len(emps) |->
      [ id |-> emps[i].id,
        skills |-> emps[i].skills,
        embedding |-> Encode(SkillText(emps[i].skills)) ] ]

\* The skill texts of a roster.
SkillTexts(emps) == { SkillText(emps[i].skills) : i \in 1..Len(emps) }

\* util.pytorch_cos_sim(a, b).item(): the similarity the embedding model
\* yields for the two encoded texts.
pytorch_cos_sim(a, b) == skill_model[a.vector_of][b.vector_of]

\* Nearest decimal with the given number of units per printed digit, ties to
\* even (the rounding of a format specification).
RoundHalfEven(n, d) ==
  LET q == n \div d
      r == n % d
  IN  IF 2 * r < d THEN q
      ELSE IF 2 * r > d THEN q + 1
      ELSE IF q % 2 = 0 THEN q ELSE q + 1

\* f"{priority_score:.1f}": tenths printed for a priority score.
FormatScore(priority_score) == RoundHalfEven(priority_score, 1000)

\* f"{similarity_score:.2f}": hundredths printed for a similarity.
FormatSimilarity(similarity_score) == RoundHalfEven(similarity_score, 10)

\* The scan of the index: the running best is replaced on a strictly greater
\* similarity.
RECURSIVE ScanIndex(_, _, _)
ScanIndex(ticket_embedding, i, best) ==
  IF i > Len(employer_skill_embeddings) THEN best
  ELSE
    LET emp_data == employer_skill_embeddings[i]
        similarity == pytorch_cos_sim(ticket_embedding, emp_data.embedding)
    IN  ScanIndex(ticket_embedding, i + 1,
          IF similarity > best.best_score
            THEN [ best_match_id |-> Some(emp_data.id),
                   best_score |-> similarity,
                   best_skills |-> emp_data.skills ]
            ELSE best)

\* The employer record with the best id: the first of the roster that has it.
RECURSIVE LookupEmployer(_, _, _)
LookupEmployer(i, best, miss) ==
  IF i > Len(employers) THEN miss
  ELSE IF Some(employers[i].id) = best.best_match_id
    THEN [ employer |-> Some(employers[i]),
           score |-> best.best_score,
           skills |-> best.best_skills ]
    ELSE LookupEmployer(i + 1, best, miss)

find_best_employer_embeddings(ticket_text) ==
  LET ticket_embedding == Encode(ticket_text)
      start == [ best_match_id |-> None, best_score |-> -1000, best_skills |-> <<>> ]
      best == ScanIndex(ticket_embedding, 1, start)
  IN  LookupEmployer(1, best, [ employer |-> None, score |-> 0, skills |-> <<>> ])

\* np.argmax with the last maximal index instead of the first.
ArgMaxLast(scores) ==
  CHOOSE i \in 1..Len(scores) :
    /\ \A j \in 1..Len(scores) : scores[j] <= scores[i]
    /\ \A j \in 1..Len(scores) : j > i => scores[j] < scores[i]

\* np.argmax: the first index of a maximal element.
ArgMax(scores) ==
  CHOOSE i \in 1..Len(scores) :
    /\ \A j \in 1..Len(scores) : scores[j] <= scores[i]
    /\ \A j \in 1..Len(scores) : j < i => scores[j] < scores[i]

\* priority_map.get(priority_label, "P3")
priority_map(priority_label) ==
  CASE priority_label = "urgent critical" -> "P0"
    [] priority_label = "high priority" -> "P1"
    [] priority_label = "medium priority" -> "P2"
    [] priority_label = "low priority" -> "P3"
    [] OTHER -> "P3"

\* The scaling with the factor of a per-mille display.
ScaledScorePerMille(score) == score * 1000

\* result['scores'][highest_idx] * 100
ScaledScore(score) == score * 100

determine_priority_zero_shot(title, description) ==
  LET text == TicketText(title, description)
      result == priority_classifier[text]
      highest_idx == ArgMax(result.scores)
      priority_label == result.labels[highest_idx]
      priority_score == ScaledScore(result.scores[highest_idx])
  IN  [ priority |-> priority_map(priority_label), priority_score |-> priority_score ]

\* matched_skills[:3]
FirstThree(matched_skills) ==
  SubSeq(matched_skills, 1, IF Len(matched_skills) < 3 THEN Len(matched_skills) ELSE 3)

\* The urgency table with the sentences of P1 and P2 exchanged.
urgency_map_swapped(priority, priority_score) ==
  CASE priority = "P0" ->
         [ kind |-> "urgency", issue |-> "critical",
           score |-> FormatScore(priority_score), when |-> "are addressing it immediately" ]
    [] priority = "P1" ->
         [ kind |-> "urgency", issue |-> "medium-priority",
           score |-> FormatScore(priority_score), when |-> "will address it soon" ]
    [] priority = "P2" ->
         [ kind |-> "urgency", issue |-> "high-priority",
           score |-> FormatScore(priority_score), when |-> "will address it promptly" ]
    [] priority = "P3" ->
         [ kind |-> "urgency", issue |-> "low-priority",
           score |-> FormatScore(priority_score), when |-> "will address it in due course" ]

\* urgency_map[priority]: the urgency sentence of a priority code (a KeyError,
\* here no value, for any other code).
urgency_map(priority, priority_score) ==
  CASE priority = "P0" ->
         [ kind |-> "urgency", issue |-> "critical",
           score |-> FormatScore(priority_score), when |-> "are addressing it immediately" ]
    [] priority = "P1" ->
         [ kind |-> "urgency", issue |-> "high-priority",
           score |-> FormatScore(priority_score), when |-> "will address it promptly" ]
    [] priority = "P2" ->
         [ kind |-> "urgency", issue |-> "medium-priority",
           score |-> FormatScore(priority_score), when |-> "will address it soon" ]
    [] priority = "P3" ->
         [ kind |-> "urgency", issue |-> "low-priority",
           score |-> FormatScore(priority_score), when |-> "will address it in due course" ]

\* The reply: greeting, urgency sentence, assignment sentence, closing.
generate_first_reply(ticket, priority, priority_score, assignee, matched_skills) ==
  << [ kind |-> "greetings" ],
     urgency_map(priority, priority_score),
     [ kind |-> "skill_match", assignee |-> assignee, skills |-> FirstThree(matched_skills) ],
     [ kind |-> "closing" ] >>

\* str(uuid.uuid4()): an id no ticket has yet.
NewTicketId == Len(tickets_db) + 1

\* The record both creating handlers build: the triage fields are None.
NewTicket(ticket) ==
  [ id |-> NewTicketId,
    user_id |-> ticket.user_id,
    title |-> ticket.title,
    description |-> ticket.description,
    status |-> "open",
    priority |-> None,
    priority_score |-> None,
    rationale |-> None,
    assignee |-> None,
    assignee_reason |-> None,
    first_reply |-> None ]

\* Request bodies (TicketCreate).
TicketCreates == [ user_id : UserIds, title : Titles, description : Descriptions ]

\* f"Priority classification confidence: {priority_score:.1f}/100. Ticket
\* content suggests skills needed: {...}"
Rationale(priority_score, matched_skills) ==
  [ confidence |-> FormatScore(priority_score),
    skills_needed |-> IF matched_skills # <<>> THEN matched_skills
                      ELSE <<"General technical support">> ]

\* The assignee reason with the similarity printed to one decimal.
AssigneeReasonOneDecimal(similarity_score, best_employer, matched_skills) ==
  [ similarity |-> RoundHalfEven(similarity_score, 100),
    name |-> best_employer.name,
    expertise |-> matched_skills ]

\* f"Best skills match (similarity score: {similarity_score:.2f}): {name} has
\* expertise in {...}"
AssigneeReason(similarity_score, best_employer, matched_skills) ==
  [ similarity |-> FormatSimilarity(similarity_score),
    name |-> best_employer.name,
    expertise |-> matched_skills ]

\* The same text as built a second time in create_and_triage_ticket.
AssigneeReasonOnCreate(similarity_score, best_employer, matched_skills) ==
  [ similarity |-> FormatSimilarity(similarity_score),
    name |-> best_employer.name,
    expertise |-> matched_skills ]

\* The first ticket of tickets_db with the id, as its position; 0 when none has it.
RECURSIVE FindTicket(_, _)
FindTicket(i, ticket_id) ==
  IF i > Len(tickets_db) THEN 0
  ELSE IF tickets_db[i].id = ticket_id THEN i
  ELSE FindTicket(i + 1, ticket_id)

\* The triage_result dict of triage_ticket.
TriageResultDict(priority, priority_score, best_employer, similarity_score, matched_skills, first_reply) ==
  [ priority |-> priority,
    priority_score |-> priority_score,
    rationale |-> Rationale(priority_score, matched_skills),
    assignee |-> best_employer.id,
    assignee_reason |-> AssigneeReason(similarity_score, best_employer, matched_skills),
    first_reply |-> first_reply ]

\* The write-back that leaves first_reply out.
WriteTriageWithoutReply(ticket, priority, priority_score, triage_result, best_employer, first_reply) ==
  [ ticket EXCEPT
      !.priority = Some(priority),
      !.priority_score = Some(priority_score),
      !.rationale = Some(triage_result.rationale),
      !.assignee = Some(best_employer.id),
      !.assignee_reason = Some(triage_result.assignee_reason) ]

\* The write-back of triage_ticket onto the ticket record.
WriteTriage(ticket, priority, priority_score, triage_result, best_employer, first_reply) ==
  [ ticket EXCEPT
      !.priority = Some(priority),
      !.priority_score = Some(priority_score),
      !.rationale = Some(triage_result.rationale),
      !.assignee = Some(best_employer.id),
      !.assignee_reason = Some(triage_result.assignee_reason),
      !.first_reply = Some(first_reply) ]

\* The write-back of create_and_triage_ticket onto the new record.
WriteTriageOnCreate(new_ticket, priority, priority_score, best_employer, similarity_score, matched_skills, first_reply) ==
  [ new_ticket EXCEPT
      !.priority = Some(priority),
      !.priority_score = Some(priority_score),
      !.rationale = Some(Rationale(priority_score, matched_skills)),
      !.assignee = Some(best_employer.id),
      !.assignee_reason = Some(AssigneeReasonOnCreate(similarity_score, best_employer, matched_skills)),
      !.first_reply = Some(first_reply) ]

\* The "triage_result" of create_and_triage_ticket's response, read back
\* from the record just written.
TriageResultOnCreate(new_ticket, priority, priority_score, best_employer, first_reply) ==
  [ priority |-> priority,
    priority_score |-> priority_score,
    rationale |-> new_ticket.rationale[1],
    assignee |-> best_employer.id,
    assignee_reason |-> new_ticket.assignee_reason[1],
    first_reply |-> first_reply ]

\* A handler's response: the status, the error detail, the ticket and text it
\* was about, and the TriageResult when there is one.
Response(op, status, detail, ticket_id, title, description, result) ==
  [ op |-> op, status |-> status, detail |-> detail, ticket_id |-> ticket_id,
    title |-> title, description |-> description, result |-> result ]

NoResponse == Response("none", 0, "", None, None, None, None)

\* A ticket mutated through an alias of its list element: the element changes
\* in place.  As a copy appended to the list instead.
StoreTicketAppends(db, i, ticket) == Append(db, ticket)

\* A ticket mutated through an alias of its list element: the element changes
\* in place.
StoreTicket(db, i, ticket) == [ db EXCEPT ![i] = ticket ]

\* Import time: the index is computed from the roster.
LoadIndex ==
  /\ pc = "startup"
  /\ employer_skill_embeddings' = BuildIndex(employers)
  /\ pc' = "serving"
  /\ UNCHANGED <<employers, tickets_db, skill_model, priority_classifier, response, returned>>

\* POST /tickets
create_ticket(ticket) ==
  /\ pc = "serving"
  /\ Len(tickets_db) < MaxTickets
  /\ LET new_ticket == NewTicket(ticket)
     IN  /\ tickets_db' = Append(tickets_db, new_ticket)
         /\ response' = Response("create_ticket", 200, "", Some(new_ticket.id),
                                 Some(ticket.title), Some(ticket.description), None)
  /\ UNCHANGED <<employers, employer_skill_embeddings, skill_model, priority_classifier,
                 returned, pc>>

\* triage_ticket with the priority written onto the record before the
\* employer check.
triage_ticket_writes_first(ticket_id) ==
  /\ pc = "serving"
  /\ LET i == FindTicket(1, ticket_id)
     IN  IF i = 0
           THEN /\ response' = Response("triage_ticket", 404, "Ticket not found",
                                        Some(ticket_id), None, None, None)
                /\ UNCHANGED <<tickets_db, returned>>
           ELSE
             LET ticket == tickets_db[i]
                 title == ticket.title
                 description == ticket.description
                 ticket_text == TicketText(title, description)
             IN  \E p \in {determine_priority_zero_shot(title, description)} :
                 \E m \in {find_best_employer_embeddings(ticket_text)} :
                 IF m.employer = None
                   THEN /\ response' = Response("triage_ticket", 500, "No suitable employer found",
                                                Some(ticket_id), Some(title), Some(description), None)
                        /\ tickets_db' = StoreTicket(tickets_db, i,
                                           [ ticket EXCEPT !.priority = Some(p.priority),
                                                           !.priority_score = Some(p.priority_score) ])
                        /\ UNCHANGED returned
                   ELSE
                     LET best_employer == m.employer[1]
                         first_reply == generate_first_reply(ticket, p.priority, p.priority_score,
                                                             best_employer.name, m.skills)
                         triage_result == TriageResultDict(p.priority, p.priority_score, best_employer,
                                                           m.score, m.skills, first_reply)
                     IN  /\ tickets_db' = StoreTicket(tickets_db, i,
                                            WriteTriage(ticket, p.priority, p.priority_score,
                                                        triage_result, best_employer, first_reply))
                         /\ response' = Response("triage_ticket", 200, "", Some(ticket_id),
                                                 Some(title), Some(description), Some(triage_result))
                         /\ returned' = returned \cup
                              { [ title |-> title, description |-> description,
                                  result |-> triage_result ] }
  /\ UNCHANGED <<employers, employer_skill_embeddings, skill_model, priority_classifier, pc>>

\* POST /tickets/{ticket_id}/triage
triage_ticket(ticket_id) ==
  /\ pc = "serving"
  /\ LET i == FindTicket(1, ticket_id)
     IN  IF i = 0
           THEN /\ response' = Response("triage_ticket", 404, "Ticket not found",
                                        Some(ticket_id), None, None, None)
                /\ UNCHANGED <<tickets_db, returned>>
           ELSE
             LET ticket == tickets_db[i]
                 title == ticket.title
                 description == ticket.description
                 ticket_text == TicketText(title, description)
             IN  \E p \in {determine_priority_zero_shot(title, description)} :
                 \E m \in {find_best_employer_embeddings(ticket_text)} :
                 IF m.employer = None
                   THEN /\ response' = Response("triage_ticket", 500, "No suitable employer found",
                                                Some(ticket_id), Some(title), Some(description), None)
                        /\ UNCHANGED <<tickets_db, returned>>
                   ELSE
                     LET best_employer == m.employer[1]
                         first_reply == generate_first_reply(ticket, p.priority, p.priority_score,
                                                             best_employer.name, m.skills)
                         triage_result == TriageResultDict(p.priority, p.priority_score, best_employer,
                                                           m.score, m.skills, first_reply)
                     IN  /\ tickets_db' = StoreTicket(tickets_db, i,
                                            WriteTriage(ticket, p.priority, p.priority_score,
                                                        triage_result, best_employer, first_reply))
                         /\ response' = Response("triage_ticket", 200, "", Some(ticket_id),
                                                 Some(title), Some(description), Some(triage_result))
                         /\ returned' = returned \cup
                              { [ title |-> title, description |-> description,
                                  result |-> triage_result ] }
  /\ UNCHANGED <<employers, employer_skill_embeddings, skill_model, priority_classifier, pc>>

\* POST /tickets-with-triage: the ticket is appended first, then triaged.
create_and_triage_ticket(ticket) ==
  /\ pc = "serving"
  /\ Len(tickets_db) < MaxTickets
  /\ LET new_ticket == NewTicket(ticket)
         title == ticket.title
         description == ticket.description
         ticket_text == TicketText(title, description)
     IN  \E p \in {determine_priority_zero_shot(title, description)} :
         \E m \in {find_best_employer_embeddings(ticket_text)} :
         IF m.employer = None
           THEN /\ tickets_db' = Append(tickets_db, new_ticket)
                /\ response' = Response("create_and_triage_ticket", 500, "No suitable employer found",
                                        Some(new_ticket.id), Some(title), Some(description), None)
                /\ UNCHANGED returned
           ELSE
             LET best_employer == m.employer[1]
                 first_reply == generate_first_reply(new_ticket, p.priority, p.priority_score,
                                                     best_employer.name, m.skills)
                 written == WriteTriageOnCreate(new_ticket, p.priority, p.priority_score,
                                                best_employer, m.score, m.skills, first_reply)
                 triage_result == TriageResultOnCreate(written, p.priority, p.priority_score,
                                                       best_employer, first_reply)
             IN  /\ tickets_db' = StoreTicket(Append(tickets_db, new_ticket),
                                              Len(tickets_db) + 1, written)
                 /\ response' = Response("create_and_triage_ticket", 200, "", Some(new_ticket.id),
                                         Some(title), Some(description), Some(triage_result))
                 /\ returned' = returned \cup
                      { [ title |-> title, description |-> description,
                                  result |-> triage_result ] }
  /\ UNCHANGED <<employers, employer_skill_embeddings, skill_model, priority_classifier, pc>>

\* The process as started: the roster literal is loaded (a prefix of it,
\* possibly empty), the two models are fixed functions of the text, no ticket
\* exists, and the index is still the empty dict.
Init ==
  /\ employers \in Rosters
  /\ employer_skill_embeddings = <<>>
  /\ tickets_db = <<>>
  /\ skill_model \in [ Texts -> [ SkillTexts(employers) -> SimLevels ] ]
  /\ priority_classifier \in [ Texts -> ServingClassifierResults ]
  /\ response = NoResponse
  /\ returned = {}
  /\ pc = "startup"

Next ==
  \/ LoadIndex
  \/ \E ticket \in TicketCreates : create_ticket(ticket)
  \/ \E ticket_id \in 1..MaxTickets : triage_ticket(ticket_id)
  \/ \E ticket \in TicketCreates : create_and_triage_ticket(ticket)

Spec == Init /\ [][Next]_vars

\* determine_priority_zero_shot called on its own, for any classifier output.
call_determine_priority_zero_shot(title, description) ==
  /\ pc = "classify"
  /\ response' = Response("determine_priority_zero_shot", 200, "", None, Some(title),
                          Some(description),
                          Some(determine_priority_zero_shot(title, description)))
  /\ UNCHANGED <<employers, employer_skill_embeddings, tickets_db, skill_model,
                 priority_classifier, returned, pc>>

InitPriority ==
  /\ employers = <<>>
  /\ employer_skill_embeddings = <<>>
  /\ tickets_db = <<>>
  /\ skill_model = [ t \in Texts |-> <<>> ]
  /\ priority_classifier \in { [ t \in Texts |-> r ] : r \in ClassifierResults }
  /\ response = NoResponse
  /\ returned = {}
  /\ pc = "classify"

NextPriority ==
  \E title \in Titles, description \in Descriptions :
    call_determine_priority_zero_shot(title, description)

SpecPriority == InitPriority /\ [][NextPriority]_vars

(***************************************************************************)
(* Properties.                                                             *)
(***************************************************************************)

TriageOps == {"triage_ticket", "create_and_triage_ticket"}

\* The last request was a triage of an existing (or just created) ticket.
Triaged == response.op \in TriageOps /\ response.status # 404

ResponseText == TicketText(response.title[1], response.description[1])

\* The six triage fields of a ticket record.
TriageFields(t) ==
  [ priority |-> t.priority, priority_score |-> t.priority_score,
    rationale |-> t.rationale, assignee |-> t.assignee,
    assignee_reason |-> t.assignee_reason, first_reply |-> t.first_reply ]

Unset ==
  [ priority |-> None, priority_score |-> None, rationale |-> None,
    assignee |-> None, assignee_reason |-> None, first_reply |-> None ]

\* A TriageResult as the six fields of a record holding it.
AsFields(r) ==
  [ priority |-> Some(r.priority), priority_score |-> Some(r.priority_score),
    rationale |-> Some(r.rationale), assignee |-> Some(r.assignee),
    assignee_reason |-> Some(r.assignee_reason), first_reply |-> Some(r.first_reply) ]

RosterIds == { employers[i].id : i \in 1..Len(employers) }

\* The similarity of a ticket text to the i-th employer of the roster.
SimilarityTo(text, i) == skill_model[text][SkillText(employers[i].skills)]

\* The positions of the roster whose similarity to the text is maximal.
BestPositions(text) ==
  { i \in 1..Len(employers) :
      \A j \in 1..Len(employers) : SimilarityTo(text, j) <= SimilarityTo(text, i) }

\* The tickets of tickets_db the last response is about.
ResponseTickets ==
  { i \in 1..Len(tickets_db) : Some(tickets_db[i].id) = response.ticket_id }

\* C1: with at least one specialist in the roster, every triage call returns
\* an assignee that is the id of an employer of the roster, and never ends in
\* "No suitable employer found".
C1_AssigneeInRoster ==
  (Triaged /\ Len(employers) >= 1) =>
     /\ response.status = 200
     /\ response.result # None
     /\ response.result[1].assignee \in RosterIds

\* C3: when two or more employers share the maximal similarity to the ticket
\* text, the triage returns the one that comes first in the roster.
C3_TieFirstInsertedWins ==
  (Triaged /\ Cardinality(BestPositions(ResponseText)) >= 2) =>
     /\ response.status = 200
     /\ response.result # None
     /\ \E i \in BestPositions(ResponseText) :
          /\ \A j \in BestPositions(ResponseText) : i <= j
          /\ response.result[1].assignee = employers[i].id

\* C5: an index built from an empty roster is never accepted: the service
\* does not get to serve requests (and fail them one by one) with it.
C5_EmptyRosterRejectedAtBuild ==
  employers = <<>> => pc # "serving"

\* C6: when the specialist query finds no match, the triage call ends in the
\* explicit "No suitable employer found" error, returns no TriageResult, and
\* the ticket it was triaging has none of its six triage fields written.
C6_NoMatchIsExplicitError ==
  (Triaged /\ find_best_employer_embeddings(ResponseText).employer = None) =>
     /\ response.status = 500
     /\ response.detail = "No suitable employer found"
     /\ response.result = None
     /\ \A i \in ResponseTickets : TriageFields(tickets_db[i]) = Unset

C6_Witness ==
  /\ response.op = "triage_ticket"
  /\ response.status = 500
  /\ Len(employers) >= 1
  /\ Len(tickets_db) = 2
  /\ \E i \in 1..Len(tickets_db) : tickets_db[i].assignee # None

\* C7: any two triage calls with the same (title, description) returned the
\* same TriageResult, whichever endpoint served them and whatever happened in
\* between.
C7_SameTextSameResult ==
  /\ \A a, b \in returned :
       (a.title = b.title /\ a.description = b.description) => a.result = b.result
  /\ (Triaged /\ response.status = 200) =>
       \A a \in returned :
         (Some(a.title) = response.title /\ Some(a.description) = response.description)
           => a.result = response.result[1]

\* Two tickets with the same text, each triaged by a call of its own, the
\* last of them through triage_ticket.
C7_Witness ==
  /\ Len(tickets_db) = 2
  /\ response.op = "triage_ticket"
  /\ response.status = 200
  /\ response.ticket_id = Some(1)
  /\ tickets_db[1].priority # None
  /\ tickets_db[2].priority # None
  /\ tickets_db[2].title = tickets_db[1].title
  /\ tickets_db[2].description = tickets_db[1].description
  /\ Cardinality(returned) = 1

\* The urgency sentence the reply must carry for a priority code.
UrgencyIssue(priority) ==
  CASE priority = "P0" -> "critical"
    [] priority = "P1" -> "high-priority"
    [] priority = "P2" -> "medium-priority"
    [] priority = "P3" -> "low-priority"

\* C8: the first_reply of a successful triage holds exactly one urgency
\* sentence, the one of the returned priority code, with the returned
\* priority_score printed to one decimal.
C8_ReplyUrgencyMatchesPriority ==
  (Triaged /\ response.status = 200) =>
     LET r == response.result[1]
         urgency == { k \in 1..Len(r.first_reply) : r.first_reply[k].kind = "urgency" }
     IN  /\ Cardinality(urgency) = 1
         /\ r.priority \in {"P0", "P1", "P2", "P3"}
         /\ \A k \in urgency :
              /\ r.first_reply[k].issue = UrgencyIssue(r.priority)
              /\ r.first_reply[k].score = FormatScore(r.priority_score)

C8_Witness ==
  /\ Triaged
  /\ response.status = 200
  /\ response.result[1].priority = "P1"
  /\ response.result[1].first_reply[2].score = 667

\* C9: once serving, no request changes the roster or the index, and
\* triage_ticket neither adds nor removes a ticket nor changes a ticket other
\* than the one it was asked to triage.
C9_TriageFrame ==
  [][ pc = "serving" =>
        /\ employers' = employers
        /\ employer_skill_embeddings' = employer_skill_embeddings
        /\ response'.op = "triage_ticket" =>
             /\ Len(tickets_db') = Len(tickets_db)
             /\ \A i \in 1..Len(tickets_db) :
                  Some(tickets_db[i].id) # response'.ticket_id
                    => tickets_db'[i] = tickets_db[i] ]_vars

C9_Witness ==
  /\ Len(tickets_db) = 2
  /\ response.op = "triage_ticket"
  /\ response.status = 200
  /\ response.ticket_id = Some(2)
  /\ TriageFields(tickets_db[1]) = Unset
  /\ TriageFields(tickets_db[2]) # Unset
  /\ tickets_db[1].description = tickets_db[2].description

\* C10: every ticket record is all-or-nothing triaged.  Its six triage fields
\* are all None, or all set to a TriageResult some call returned for its text,
\* with an assignee of the roster; the record of the last successful triage
\* holds the result that call returned; a failed triage leaves the fields of
\* every record as they were.
C10_State ==
  /\ \A i \in 1..Len(tickets_db) :
       LET t == tickets_db[i]
       IN  \/ TriageFields(t) = Unset
           \/ /\ t.priority # None /\ t.priority_score # None /\ t.rationale # None
              /\ t.assignee # None /\ t.assignee_reason # None /\ t.first_reply # None
              /\ t.assignee[1] \in RosterIds
              /\ \E a \in returned :
                   /\ a.title = t.title
                   /\ a.description = t.description
                   /\ AsFields(a.result) = TriageFields(t)
  /\ (Triaged /\ response.status = 200) =>
       /\ ResponseTickets # {}
       /\ \A i \in ResponseTickets : TriageFields(tickets_db[i]) = AsFields(response.result[1])

C10_FailedCallKeepsFields ==
  (response'.op \in TriageOps /\ response'.status # 200) =>
     /\ \A i \in 1..Len(tickets_db) : TriageFields(tickets_db'[i]) = TriageFields(tickets_db[i])
     /\ \A i \in (Len(tickets_db) + 1)..Len(tickets_db') : TriageFields(tickets_db'[i]) = Unset

C10_AllOrNothing == []C10_State /\ [][C10_FailedCallKeepsFields]_vars

\* A failed create-and-triage left its record untriaged beside a triaged one.
C10_Witness ==
  /\ Len(tickets_db) = 2
  /\ TriageFields(tickets_db[1]) # Unset
  /\ TriageFields(tickets_db[2]) = Unset
  /\ response.op = "create_and_triage_ticket"
  /\ response.status = 500

\* The result of the last direct call of determine_priority_zero_shot.
Classified == response.op = "determine_priority_zero_shot"

\* C2: for every classifier output, the priority code is one of P0..P3 and
\* the priority_score (the winning raw score times 100) lies in [0, 100].
C2_PriorityAndScoreInRange ==
  Classified =>
     /\ response.result[1].priority \in {"P0", "P1", "P2", "P3"}
     /\ response.result[1].priority_score >= 0
     /\ response.result[1].priority_score <= 100 * 10000

\* The classifier returned its labels out of candidate order and gave the
\* best one the score 1.0.
C2_Witness ==
  /\ Classified
  /\ response.result[1].priority_score = 100 * 10000
  /\ response.result[1].priority = "P2"
  /\ priority_classifier[ResponseText].labels[1] = "low priority"

\* The maximal score of a classifier output.
IsMaxScore(result, i) == \A j \in 1..Len(result.scores) : result.scores[j] <= result.scores[i]

\* C4 (as amended): among the labels with the maximal score, the priority
\* returned is that of the label that comes first in the list the classifier
\* returned.
C4_FirstReturnedMaxWins ==
  Classified =>
     LET result == priority_classifier[ResponseText]
     IN  \E i \in 1..Len(result.scores) :
           /\ IsMaxScore(result, i)
           /\ \A j \in 1..(i - 1) : ~IsMaxScore(result, j)
           /\ response.result[1].priority = priority_map(result.labels[i])

\* C4 (as claimed): among the labels with the maximal score, the priority
\* returned is that of the label that is earliest in the candidate list,
\* whatever the order the classifier returned them in.
C4_EarliestCandidateWins ==
  Classified =>
     LET result == priority_classifier[ResponseText]
         best == { k \in 1..Len(candidate_labels) :
                     \E i \in 1..Len(result.labels) :
                        result.labels[i] = candidate_labels[k] /\ IsMaxScore(result, i) }
     IN  \E k \in best :
           /\ \A m \in best : k <= m
           /\ response.result[1].priority = priority_map(candidate_labels[k])

\* A tie for the best score, with the later candidate returned first.
C4_Witness ==
  /\ Classified
  /\ LET result == priority_classifier[ResponseText]
     IN  /\ result.labels[1] = "high priority"
         /\ result.labels[2] = "urgent critical"
         /\ result.scores[1] = result.scores[2]
         /\ IsMaxScore(result, 1)
         /\ response.result[1].priority = "P1"

====
